---- MODULE Spec2Model ----
(***************************************************************************)
(* State-machine model of webutil's single-threaded primitives:            *)
(*   - channel.rs : Sender / Receiver over ChannelState (unbounded FIFO)   *)
(*   - channel.rs : Oneshot / Once over OneshotState (single handoff)      *)
(*   - task.rs    : Task / Consumer (callback bridge)                      *)
(*                                                                         *)
(* Option<T> is modelled as a sequence of length <= 1: <<>> is None and    *)
(* <<x>> is Some(x).  Every operation is one action that also records, in  *)
(* an observation record (chOp / osOp / tkOp), what the call was given and *)
(* what it returned, plus which waker it fired.                            *)
(*                                                                         *)
(* The three primitives share no state, so each has its own specification  *)
(* (SpecChannel, SpecOneshot, SpecTask), each started at construction.     *)
(***************************************************************************)
EXTENDS Integers, Sequences, FiniteSets, TLC

\* ---------------------------------------------------------------- bounds
\* Total number of accepted sends on the channel.
MaxSends == 3
\* Largest number of live handles of one kind (caps Clone).
MaxHandles == 3
\* concurrent `run` futures of one TaskWorker
MaxRuns == 3

\* Payload values and waker identities used as inputs.
Values == {5, 42}
Wakers == {"W1", "W2", "W3"}

None == <<>>
Some(x) == <<x>>

VARIABLES
    \* ChannelState (channel.rs:12-17)
    recvs, senders, waker, queue,
    \* live Sender / Receiver handles (who may still call)
    senderHandles, receiverHandles,
    \* observation of the channel: accepted sends, delivered values,
    \* wake counts per waker, last operation
    accepted, delivered, chFired, chOp,
    \* OneshotState (channel.rs:115-120)
    v, os_waker, recv_exists, send_exists,
    \* live Oneshot / Once handles
    oneshotLive, onceLive,
    \* observation of the one-shot
    osResolved, osDelivered, osFired, osOp,
    \* Task (task.rs:7-10) and the Consumer it issues (task.rs:12-15)
    result, task, consumerWaker, consumer,
    \* whether the Task itself has not been dropped yet
    taskLive,
    \* observation of the task: wake counts, values returned by Ready
    \* polls, number of invocations of the registration closure, last op
    tkFired, tkDelivered, closureRuns, tkOp,
    \* an adapter of event.rs / global.rs around the channel or the one-shot:
    \* which one, whether the host still holds its callback, whether the
    \* stream / future handed to the caller is alive, whether a `later` /
    \* `animation_frame` future has run its body, whether a poll of the
    \* future has returned Ready, which unwrap panicked, and whether a
    \* callback ran after the caller's handle was dropped
    adKind, hostRegistered, adLive, adStarted, adReady, adPanic, lateFire,
    \* TaskWorker (worker.rs:131-135): the queue of pending reply callbacks,
    \* each named by the `run` future whose Consumer it owns
    futures,
    \* messages posted to the worker and not yet handled by it, and replies
    \* it posted back that the listener has not yet been run with
    inbox, outbox,
    \* each `run` future: where it is, the result slot and the waker cell of
    \* its Task, and what it returned
    runPc, runResult, runWaker, runOut,
    \* observation of the worker: the futures whose post succeeded, in
    \* posting order, the replies handed out, in arrival order, wake counts,
    \* and whether the listener panicked
    posted, awarded, wkFired, wkPanic

chVars == <<recvs, senders, waker, queue, senderHandles, receiverHandles,
            accepted, delivered, chFired, chOp>>
osVars == <<v, os_waker, recv_exists, send_exists, oneshotLive, onceLive,
            osResolved, osDelivered, osFired, osOp>>
tkVars == <<result, task, consumerWaker, consumer, taskLive, tkFired,
            tkDelivered, closureRuns, tkOp>>
adVars == <<adKind, hostRegistered, adLive, adStarted, adReady, adPanic,
            lateFire>>
wkVars == <<futures, inbox, outbox, runPc, runResult, runWaker, runOut,
            posted, awarded, wkFired, wkPanic>>
vars == <<chVars, osVars, tkVars, adVars, wkVars>>

\* An observation record: operation name, its value argument, the context
\* waker it was polled with, the tag and payload of what it returned, the
\* waker fired by the body of the call and the waker fired by a drop the
\* call runs implicitly on return.
\* Two further fields are filled in by the operations they concern:
\* `replaced`, the waker a Pending poll found in the slot and replaced, and
\* `held`, the RefCells still exclusively borrowed when the call fired a
\* waker.
Op(op, arg, wk, tag, val, woke, dropWoke) ==
    [op |-> op, arg |-> arg, wk |-> wk, tag |-> tag, val |-> val,
     woke |-> woke, dropWoke |-> dropWoke, replaced |-> None, held |-> {}]

NoFires == [w \in Wakers |-> 0]

\* Waker::wake under a scheduler that only enqueues: count the fire.
\* `slot` is the Option<Waker> that was taken out of the state.
Wake(fired, slot) ==
    IF slot = None THEN fired
    ELSE [fired EXCEPT ![slot[1]] = @ + 1]

\* The RefCell whose RefMut is alive at the line where each operation calls
\* Waker::wake.  send, Drop for Sender, resolve and Drop for Oneshot bind the
\* RefMut to the local `state`, which lives to the end of the function
\* (channel.rs:21-25, 36-40, 138-142, 164-167).  consume releases the result
\* slot at the end of its first statement, but the RefMut of the waker cell
\* is a temporary of the statement that calls wake (task.rs:53-54).
BorrowAtWake(site) ==
    CASE site = "send" -> {"ChannelState"}
      [] site = "drop_sender" -> {"ChannelState"}
      [] site = "resolve" -> {"OneshotState"}
      [] site = "drop_oneshot" -> {"OneshotState"}
      [] site = "consume" -> {"WakerCell"}

\* What is borrowed while `slot`, taken at `site`, is being woken.
HeldAtWake(slot, site) ==
    IF slot = None THEN {} ELSE BorrowAtWake(site)

\* ============================================================== Channel

\* channel() : one Sender, one Receiver, empty queue, no waker.
channel ==
    /\ recvs = 1
    /\ senders = 1
    /\ waker = None
    /\ queue = <<>>
    /\ senderHandles = 1
    /\ receiverHandles = 1
    /\ accepted = <<>>
    /\ delivered = <<>>
    /\ chFired = NoFires
    /\ chOp = Op("channel", None, None, "Ok", None, None, None)

\* Mutant of push_back: the value is put at the front of the queue.
push_front(q, x) == <<x>> \o q

\* VecDeque::push_back as Sender::send uses it.
push_back(q, x) == Append(q, x)

\* Mutant of Send: the stored waker is left in its slot and is not fired.
Send_noWake(x) ==
    /\ UNCHANGED <<osVars, tkVars, adVars, wkVars>>
    /\ senderHandles > 0
    /\ (recvs > 0 => Len(accepted) < MaxSends)
    /\ IF recvs > 0
       THEN /\ queue' = push_back(queue, x)
            /\ accepted' = Append(accepted, x)
            /\ chOp' = Op("send", Some(x), None, "Ok", None, None, None)
            /\ UNCHANGED <<waker, chFired>>
       ELSE /\ chOp' = Op("send", Some(x), None, "Err", Some(x), None, None)
            /\ UNCHANGED <<queue, waker, chFired, accepted>>
    /\ UNCHANGED <<recvs, senders, senderHandles, receiverHandles, delivered>>

\* Mutant of Send: the value is enqueued without looking at recvs.
Send_ignoresRecvs(x) ==
    /\ UNCHANGED <<osVars, tkVars, adVars, wkVars>>
    /\ senderHandles > 0
    /\ Len(accepted) < MaxSends
    /\ queue' = push_back(queue, x)
    /\ waker' = None
    /\ chFired' = Wake(chFired, waker)
    /\ accepted' = Append(accepted, x)
    /\ chOp' = [Op("send", Some(x), None, "Ok", None, waker, None)
                        EXCEPT !.held = HeldAtWake(waker, "send")]
    /\ UNCHANGED <<recvs, senders, senderHandles, receiverHandles, delivered>>

\* Sender::send.  The guard on accepted is the model's bound on the number
\* of accepted sends; a rejected send is always possible.
SendCall(x) ==
    /\ senderHandles > 0
    /\ (recvs > 0 => Len(accepted) < MaxSends)
    /\ IF recvs > 0
       THEN /\ queue' = push_back(queue, x)
            /\ waker' = None
            /\ chFired' = Wake(chFired, waker)
            /\ accepted' = Append(accepted, x)
            /\ chOp' = [Op("send", Some(x), None, "Ok", None, waker, None)
                        EXCEPT !.held = HeldAtWake(waker, "send")]
       ELSE /\ chOp' = Op("send", Some(x), None, "Err", Some(x), None, None)
            /\ UNCHANGED <<queue, waker, chFired, accepted>>
    /\ UNCHANGED <<recvs, senders, senderHandles, receiverHandles, delivered>>

Send(x) ==
    /\ UNCHANGED <<osVars, tkVars, adVars, wkVars>>
    /\ SendCall(x)

\* Drop for Sender
DropSender ==
    /\ UNCHANGED <<osVars, tkVars, adVars, wkVars>>
    /\ senderHandles > 0
    /\ senderHandles' = senderHandles - 1
    /\ senders' = senders - 1
    /\ IF senders' = 0
       THEN /\ waker' = None
            /\ chFired' = Wake(chFired, waker)
            /\ chOp' = [Op("drop_sender", None, None, "Ok", None, waker,
                            None)
                         EXCEPT !.held = HeldAtWake(waker, "drop_sender")]
       ELSE /\ chOp' = Op("drop_sender", None, None, "Ok", None, None, None)
            /\ UNCHANGED <<waker, chFired>>
    /\ UNCHANGED <<recvs, queue, receiverHandles, accepted, delivered>>

\* Mutant of CloneSender: the new handle is made without counting it.
CloneSender_noCount ==
    /\ UNCHANGED <<osVars, tkVars, adVars, wkVars>>
    /\ senderHandles > 0
    /\ senderHandles < MaxHandles
    /\ senderHandles' = senderHandles + 1
    /\ chOp' = Op("clone_sender", None, None, "Ok", None, None, None)
    /\ UNCHANGED <<recvs, senders, waker, queue, receiverHandles, accepted,
                   delivered, chFired>>

\* Clone for Sender
CloneSender ==
    /\ UNCHANGED <<osVars, tkVars, adVars, wkVars>>
    /\ senderHandles > 0
    /\ senderHandles < MaxHandles
    /\ senders' = senders + 1
    /\ senderHandles' = senderHandles + 1
    /\ chOp' = Op("clone_sender", None, None, "Ok", None, None, None)
    /\ UNCHANGED <<recvs, waker, queue, receiverHandles, accepted, delivered,
                   chFired>>

\* Mutant of try_recv: an empty queue is always reported as Empty.
try_recv_neverClosed(q, s) ==
    IF q # <<>>
    THEN [tag |-> "Ok", val |-> Some(Head(q)), queue |-> Tail(q)]
    ELSE [tag |-> "Empty", val |-> None, queue |-> q]

\* Mutant of try_recv: closure is looked at before the queue.
try_recv_closedFirst(q, s) ==
    IF s = 0
    THEN [tag |-> "Closed", val |-> None, queue |-> q]
    ELSE IF q # <<>>
         THEN [tag |-> "Ok", val |-> Some(Head(q)), queue |-> Tail(q)]
         ELSE [tag |-> "Empty", val |-> None, queue |-> q]

\* Receiver::try_recv as a function of the queue and the sender count:
\* the result and the queue it leaves.
try_recv(q, s) ==
    IF q # <<>>
    THEN [tag |-> "Ok", val |-> Some(Head(q)), queue |-> Tail(q)]
    ELSE IF s = 0
         THEN [tag |-> "Closed", val |-> None, queue |-> q]
         ELSE [tag |-> "Empty", val |-> None, queue |-> q]

\* Receiver::try_recv called directly
TryRecvCall ==
    /\ receiverHandles > 0
    /\ LET r == try_recv(queue, senders) IN
        /\ queue' = r.queue
        /\ delivered' = delivered \o r.val
        /\ chOp' = Op("try_recv", None, None, r.tag, r.val, None, None)
    /\ UNCHANGED <<recvs, senders, waker, senderHandles, receiverHandles,
                   accepted, chFired>>

TryRecv ==
    /\ UNCHANGED <<osVars, tkVars, adVars, wkVars>>
    /\ TryRecvCall

\* Mutant of RecvPoll: a waker already stored is kept, the new one dropped.
RecvPoll_keepsFirstWaker(w) ==
    /\ UNCHANGED <<osVars, tkVars, adVars, wkVars>>
    /\ receiverHandles > 0
    /\ LET r == try_recv(queue, senders) IN
        /\ queue' = r.queue
        /\ delivered' = delivered \o r.val
        /\ IF r.tag = "Empty"
           THEN /\ waker' = IF waker = None THEN Some(w) ELSE waker
                /\ chOp' = Op("poll", None, Some(w), "Pending", None, None,
                              None)
           ELSE /\ waker' = waker
                /\ chOp' = Op("poll", None, Some(w), "Ready", r.val, None, None)
    /\ UNCHANGED <<recvs, senders, senderHandles, receiverHandles, accepted,
                   chFired>>

\* RecvFuture::poll with the context's waker w (one poll of Receiver::recv)
RecvPollCall(w) ==
    /\ receiverHandles > 0
    /\ LET r == try_recv(queue, senders) IN
        /\ queue' = r.queue
        /\ delivered' = delivered \o r.val
        /\ IF r.tag = "Empty"
           THEN /\ waker' = Some(w)
                /\ chOp' = [Op("poll", None, Some(w), "Pending", None, None,
                                None)
                             EXCEPT !.replaced = waker]
           ELSE /\ waker' = waker
                /\ chOp' = Op("poll", None, Some(w), "Ready", r.val, None, None)
    /\ UNCHANGED <<recvs, senders, senderHandles, receiverHandles, accepted,
                   chFired>>

RecvPoll(w) ==
    /\ UNCHANGED <<osVars, tkVars, adVars, wkVars>>
    /\ RecvPollCall(w)

\* Drop for Receiver
DropReceiver ==
    /\ UNCHANGED <<osVars, tkVars, adVars, wkVars>>
    /\ receiverHandles > 0
    /\ receiverHandles' = receiverHandles - 1
    /\ recvs' = recvs - 1
    /\ chOp' = Op("drop_receiver", None, None, "Ok", None, None, None)
    /\ UNCHANGED <<senders, waker, queue, senderHandles, accepted, delivered,
                   chFired>>

\* Clone for Receiver
CloneReceiver ==
    /\ UNCHANGED <<osVars, tkVars, adVars, wkVars>>
    /\ receiverHandles > 0
    /\ receiverHandles < MaxHandles
    /\ recvs' = recvs + 1
    /\ receiverHandles' = receiverHandles + 1
    /\ chOp' = Op("clone_receiver", None, None, "Ok", None, None, None)
    /\ UNCHANGED <<senders, waker, queue, senderHandles, accepted, delivered,
                   chFired>>

\* ============================================================== One-shot

\* oneshot()
oneshot ==
    /\ v = None
    /\ os_waker = None
    /\ recv_exists = TRUE
    /\ send_exists = TRUE
    /\ oneshotLive = TRUE
    /\ onceLive = TRUE
    /\ osResolved = None
    /\ osDelivered = <<>>
    /\ osFired = NoFires
    /\ osOp = Op("oneshot", None, None, "Ok", None, None, None)

\* Mutant of DropForOneshot: send_exists is left true.
DropForOneshot_keepsSendExists(slot) ==
    [send_exists |-> TRUE, waker |-> None, woke |-> slot]

\* Mutant of DropForOneshot: the stored waker is left in place, not fired.
DropForOneshot_noWake(slot) ==
    [send_exists |-> FALSE, waker |-> slot, woke |-> None]

\* Drop for Oneshot applied to a state whose waker slot holds `slot`:
\* send_exists becomes false, the slot is taken and its waker fired.
DropForOneshot(slot) ==
    [send_exists |-> FALSE, waker |-> None, woke |-> slot]

\* Mutant of resolve: the value is stored without looking at recv_exists.
resolve_ignoresRecvExists(x) ==
    [tag |-> "Ok", val |-> None, v |-> Some(x), waker |-> None,
     woke |-> os_waker]

\* Mutant of resolve: the waker is fired but left in its slot.
resolve_wakeKeepsSlot(x) ==
    IF recv_exists
    THEN [tag |-> "Ok", val |-> None, v |-> Some(x), waker |-> os_waker,
          woke |-> os_waker]
    ELSE [tag |-> "Err", val |-> Some(x), v |-> v, waker |-> os_waker,
          woke |-> None]

\* The body of Oneshot::resolve (before `self` goes out of scope).
resolve(x) ==
    IF recv_exists
    THEN [tag |-> "Ok", val |-> None, v |-> Some(x), waker |-> None,
          woke |-> os_waker]
    ELSE [tag |-> "Err", val |-> Some(x), v |-> v, waker |-> os_waker,
          woke |-> None]

\* Oneshot::resolve(self, x): the body, then the drop of the consumed
\* handle `self` as the call returns.
ResolveCall(x) ==
    /\ oneshotLive
    /\ LET r == resolve(x)
           d == DropForOneshot(r.waker)
       IN
        /\ v' = r.v
        /\ os_waker' = d.waker
        /\ send_exists' = d.send_exists
        /\ osFired' = Wake(Wake(osFired, r.woke), d.woke)
        /\ osResolved' = IF r.tag = "Ok" THEN Some(x) ELSE osResolved
        /\ osOp' = [Op("resolve", Some(x), None, r.tag, r.val, r.woke,
                        d.woke)
                     EXCEPT !.held = HeldAtWake(r.woke, "resolve")
                                       \cup HeldAtWake(d.woke, "drop_oneshot")]
    /\ oneshotLive' = FALSE
    /\ UNCHANGED <<recv_exists, onceLive, osDelivered>>

Resolve(x) ==
    /\ UNCHANGED <<chVars, tkVars, adVars, wkVars>>
    /\ ResolveCall(x)

\* Drop for Oneshot, the handle being dropped without resolve.
DropOneshot ==
    /\ UNCHANGED <<chVars, tkVars, adVars, wkVars>>
    /\ oneshotLive
    /\ LET d == DropForOneshot(os_waker) IN
        /\ os_waker' = d.waker
        /\ send_exists' = d.send_exists
        /\ osFired' = Wake(osFired, d.woke)
        /\ osOp' = [Op("drop_oneshot", None, None, "Ok", None, None, d.woke)
                     EXCEPT !.held = HeldAtWake(d.woke, "drop_oneshot")]
    /\ oneshotLive' = FALSE
    /\ UNCHANGED <<v, recv_exists, onceLive, osResolved, osDelivered>>

\* Mutant of once_try_recv: Empty and Closed are exchanged.
once_try_recv_swapped(slot, se) ==
    IF slot # None
    THEN [tag |-> "Ok", val |-> slot, v |-> None]
    ELSE IF se
         THEN [tag |-> "Closed", val |-> None, v |-> None]
         ELSE [tag |-> "Empty", val |-> None, v |-> None]

\* Once::try_recv as a function of the slot and send_exists: the result
\* and the slot it leaves.
once_try_recv(slot, se) ==
    IF slot # None
    THEN [tag |-> "Ok", val |-> slot, v |-> None]
    ELSE IF se
         THEN [tag |-> "Empty", val |-> None, v |-> None]
         ELSE [tag |-> "Closed", val |-> None, v |-> None]

\* Once::try_recv called directly
OnceTryRecvCall ==
    /\ onceLive
    /\ LET r == once_try_recv(v, send_exists) IN
        /\ v' = r.v
        /\ osDelivered' = osDelivered \o r.val
        /\ osOp' = Op("try_recv", None, None, r.tag, r.val, None, None)
    /\ UNCHANGED <<os_waker, recv_exists, send_exists, oneshotLive, onceLive,
                   osResolved, osFired>>

OnceTryRecv ==
    /\ UNCHANGED <<chVars, tkVars, adVars, wkVars>>
    /\ OnceTryRecvCall

\* Future for Once: one poll with the context's waker w
OncePollCall(w) ==
    /\ onceLive
    /\ LET r == once_try_recv(v, send_exists) IN
        /\ v' = r.v
        /\ osDelivered' = osDelivered \o r.val
        /\ IF r.tag = "Empty"
           THEN /\ os_waker' = Some(w)
                /\ osOp' = [Op("poll", None, Some(w), "Pending", None, None,
                                None)
                             EXCEPT !.replaced = os_waker]
           ELSE /\ os_waker' = os_waker
                /\ osOp' = Op("poll", None, Some(w), "Ready", r.val, None, None)
    /\ UNCHANGED <<recv_exists, send_exists, oneshotLive, onceLive,
                   osResolved, osFired>>

OncePoll(w) ==
    /\ UNCHANGED <<chVars, tkVars, adVars, wkVars>>
    /\ OncePollCall(w)

\* Drop for Once
DropOnce ==
    /\ UNCHANGED <<chVars, tkVars, adVars, wkVars>>
    /\ onceLive
    /\ onceLive' = FALSE
    /\ recv_exists' = FALSE
    /\ osOp' = Op("drop_once", None, None, "Ok", None, None, None)
    /\ UNCHANGED <<v, os_waker, send_exists, oneshotLive, osResolved,
                   osDelivered, osFired>>

\* ============================================================== Task

\* What a registration closure F may do with the Consumer it is handed:
\* consume value x before returning ("sync"), keep the Consumer for a later
\* external trigger ("defer"), or let the Consumer go without consuming
\* ("discard").
Closures ==
    {[kind |-> "sync", x |-> Some(x)] : x \in Values}
      \cup {[kind |-> "defer", x |-> None], [kind |-> "discard", x |-> None]}

\* Task::new(f) : the closure is stored, nothing is run.
TaskNew(f) ==
    /\ result = None
    /\ task = Some(f)
    /\ consumerWaker = None
    /\ consumer = "none"
    /\ taskLive = TRUE
    /\ tkDelivered = <<>>
    /\ closureRuns = 0
    /\ tkFired = NoFires
    /\ tkOp = [op |-> "new", arg |-> None, wk |-> None, tag |-> "Ok",
               val |-> None, woke |-> None, ran |-> "no", held |-> {}]

\* Observation record of a Task operation: as Op, plus `ran`, how the
\* registration closure behaved if this call invoked it ("no" if it did not).
TkOp(op, arg, wk, tag, val, woke, ran) ==
    [op |-> op, arg |-> arg, wk |-> wk, tag |-> tag, val |-> val,
     woke |-> woke, ran |-> ran, held |-> {}]

\* Mutant of consume: the value is stored but the waker is not fired.
consume_noWake(x, cell) ==
    [result |-> Some(x), waker |-> cell, woke |-> None]

\* Consumer::consume applied to a result slot and a waker cell holding
\* `cell`: the slot is replaced, the cell is taken and its waker fired.
consume(x, cell) ==
    [result |-> Some(x), waker |-> None, woke |-> cell]

\* Mutant of TakeClosure: the closure is read but left in the Task.
TakeClosure_leaves(t) == [taken |-> t, left |-> t]

\* `self.task.borrow_mut().take()`: what is taken and what the Task keeps.
TakeClosure(t) == [taken |-> t, left |-> None]

\* Mutant of Repoll: a result found in the slot is returned but not cleared.
Repoll_leavesResult(res) ==
    IF res # None
    THEN [tag |-> "Ready", val |-> res, result |-> res]
    ELSE [tag |-> "Pending", val |-> None, result |-> None]

\* Mutant of Repoll: Pending is returned without looking at the slot again.
Repoll_skipped(res) ==
    [tag |-> "Pending", val |-> None, result |-> res]

\* The `self.poll(ctx)` that ends the first poll, entered with the closure
\* already taken: the result slot is taken; Ready if it held a value,
\* Pending otherwise.
Repoll(res) ==
    IF res # None
    THEN [tag |-> "Ready", val |-> res, result |-> None]
    ELSE [tag |-> "Pending", val |-> None, result |-> None]

\* Future for Task: one poll with the context's waker w.  If the result
\* slot is empty and the closure is still stored, the closure is taken and
\* invoked with a Consumer over a fresh, empty waker cell; then w is stored
\* in the cell and poll is entered again, which re-checks the result slot.
\* The waker cell lives only as long as the Consumer that shares it: when
\* the closure did not keep the Consumer, the cell goes away with the call.
TaskPoll(w) ==
    /\ UNCHANGED <<chVars, osVars, adVars, wkVars>>
    /\ taskLive
    /\ UNCHANGED taskLive
    /\ IF result # None
       THEN /\ result' = None
            /\ tkDelivered' = tkDelivered \o result
            /\ tkOp' = TkOp("poll", None, Some(w), "Ready", result, None, "no")
            /\ UNCHANGED <<task, consumerWaker, consumer, tkFired,
                           closureRuns>>
       ELSE IF TakeClosure(task).taken # None
       THEN LET f == TakeClosure(task).taken[1]
                c == IF f.kind = "sync" THEN consume(f.x[1], None)
                     ELSE [result |-> None, waker |-> None, woke |-> None]
                r == Repoll(c.result)
            IN
            /\ task' = TakeClosure(task).left
            /\ closureRuns' = closureRuns + 1
            /\ tkDelivered' = tkDelivered \o r.val
            /\ consumer' = CASE f.kind = "sync" -> "used"
                             [] f.kind = "defer" -> "held"
                             [] OTHER -> "dropped"
            /\ consumerWaker' = IF f.kind = "defer" THEN Some(w) ELSE None
            /\ tkFired' = Wake(tkFired, c.woke)
            /\ result' = r.result
            /\ tkOp' = [TkOp("poll", f.x, Some(w), r.tag, r.val, c.woke,
                             f.kind)
                        EXCEPT !.held = HeldAtWake(c.woke, "consume")]
       ELSE /\ tkOp' = TkOp("poll", None, Some(w), "Pending", None, None, "no")
            /\ UNCHANGED <<result, task, consumerWaker, consumer, tkFired,
                           tkDelivered, closureRuns>>

\* Consumer::consume called by the external trigger that holds the Consumer.
Consume(x) ==
    /\ UNCHANGED <<chVars, osVars, adVars, wkVars>>
    /\ consumer = "held"
    /\ LET c == consume(x, consumerWaker) IN
        /\ result' = c.result
        /\ consumerWaker' = c.waker
        /\ tkFired' = Wake(tkFired, c.woke)
        /\ tkOp' = [TkOp("consume", Some(x), None, "Ok", None, c.woke, "no")
                     EXCEPT !.held = HeldAtWake(c.woke, "consume")]
    /\ consumer' = "used"
    /\ UNCHANGED <<task, taskLive, tkDelivered, closureRuns>>

\* The external trigger goes away and the Consumer it held is dropped:
\* the waker cell goes with it, its waker is not fired.
DropConsumer ==
    /\ UNCHANGED <<chVars, osVars, adVars, wkVars>>
    /\ consumer = "held"
    /\ consumer' = "dropped"
    /\ consumerWaker' = None
    /\ tkOp' = TkOp("drop_consumer", None, None, "Ok", None, None, "no")
    /\ UNCHANGED <<result, task, taskLive, tkFired, tkDelivered,
                   closureRuns>>

\* The Task future is dropped (the await is cancelled); a Consumer already
\* issued keeps the result slot and the waker cell alive.
DropTask ==
    /\ UNCHANGED <<chVars, osVars, adVars, wkVars>>
    /\ taskLive
    /\ taskLive' = FALSE
    /\ tkOp' = TkOp("drop_task", None, None, "Ok", None, None, "no")
    /\ UNCHANGED <<result, task, consumerWaker, consumer, tkFired,
                   tkDelivered, closureRuns>>

\* ============================================================== Borrows

\* The exclusive borrows an operation takes, as the sequence of its
\* borrow_mut() calls, of the ends of life of the RefMuts they return, and
\* of its calls of Waker::wake.
Acq(cell) == [ev |-> "borrow_mut", cell |-> cell]
Rel(cell) == [ev |-> "release", cell |-> cell]

\* Waker::wake on the waker taken out of `slot`, if any.  A waker that only
\* enqueues its task borrows none of the cells.
WakeEv(slot) ==
    IF slot = None THEN <<>> ELSE <<[ev |-> "wake", cell |-> slot[1]]>>

\* A RefMut of `cell` that is alive while `inner` happens: a RefMut bound
\* to a local lives to the end of the function body, a temporary to the end
\* of its statement.
Borrowed(cell, inner) == <<Acq(cell)>> \o inner \o <<Rel(cell)>>

\* Sender::send and Drop for Sender: `state` is alive over the wake.
send_borrows(woke) == Borrowed("ChannelState", WakeEv(woke))

\* Clone for Sender / Receiver, Drop for Receiver, Receiver::try_recv: one
\* borrow, nothing called under it.
count_borrows == Borrowed("ChannelState", <<>>)

\* RecvFuture::poll: try_recv has returned, and its `state` is gone, before
\* the Empty arm borrows again to store the waker.
recv_poll_borrows(tag) ==
    count_borrows
      \o (IF tag = "Pending" THEN Borrowed("ChannelState", <<>>) ELSE <<>>)

\* Drop for Oneshot: `state` is alive over the wake.
drop_oneshot_borrows(woke) == Borrowed("OneshotState", WakeEv(woke))

\* Mutant of resolve_borrows: the consumed handle is dropped while `state`
\* is still alive.
resolve_borrows_dropInside(woke, dropWoke) ==
    Borrowed("OneshotState", WakeEv(woke) \o drop_oneshot_borrows(dropWoke))

\* Oneshot::resolve(self, v): the local `state` is dropped at the end of
\* the body, the parameter `self` after it, which runs Drop for Oneshot.
resolve_borrows(woke, dropWoke) ==
    Borrowed("OneshotState", WakeEv(woke)) \o drop_oneshot_borrows(dropWoke)

\* Once::try_recv and Drop for Once
once_borrows == Borrowed("OneshotState", <<>>)

\* Future for Once::poll, as RecvFuture::poll
once_poll_borrows(tag) ==
    once_borrows
      \o (IF tag = "Pending" THEN Borrowed("OneshotState", <<>>) ELSE <<>>)

\* Consumer::consume: two statements, each with its own temporary RefMut;
\* the second calls wake under the borrow of the waker cell.
consume_borrows(woke) ==
    Borrowed("ResultCell", <<>>) \o Borrowed("WakerCell", WakeEv(woke))

\* What the registration closure borrows while Task::poll runs it: a
\* closure that consumes at once runs consume on the fresh, empty waker
\* cell; one that keeps or drops the Consumer borrows nothing.
closure_borrows(ran) ==
    IF ran = "sync" THEN consume_borrows(None) ELSE <<>>

\* Mutant of poll_borrows: the RefMut of the result slot is alive over the
\* whole match, and so over the call of the closure.
poll_borrows_heldOverMatch(ran, tag) ==
    IF ran = "no"
    THEN Borrowed("ResultCell",
                  IF tag = "Ready" THEN <<>> ELSE Borrowed("TaskCell", <<>>))
    ELSE Borrowed("ResultCell",
                  Borrowed("TaskCell", <<>>)
                    \o closure_borrows(ran)
                    \o Borrowed("WakerCell", <<>>)
                    \o Borrowed("ResultCell", <<>>)
                    \o (IF tag = "Ready" THEN <<>>
                        ELSE Borrowed("TaskCell", <<>>)))

\* Future for Task::poll.  `let result = self.result.borrow_mut().take();`
\* and `let task = self.task.borrow_mut().take();` each release their
\* temporary RefMut at the end of the let statement; the closure is then
\* called, the context's waker stored, and poll entered again.  `ran` is
\* how the closure behaved ("no" if this poll did not run it), `tag` what
\* the poll returned.
poll_borrows(ran, tag) ==
    IF ran = "no"
    THEN Borrowed("ResultCell", <<>>)
           \o (IF tag = "Ready" THEN <<>> ELSE Borrowed("TaskCell", <<>>))
    ELSE Borrowed("ResultCell", <<>>)
           \o Borrowed("TaskCell", <<>>)
           \o closure_borrows(ran)
           \o Borrowed("WakerCell", <<>>)
           \o Borrowed("ResultCell", <<>>)
           \o (IF tag = "Ready" THEN <<>> ELSE Borrowed("TaskCell", <<>>))

\* The borrows of the operation an observation record reports.
ChBorrows(op) ==
    CASE op.op \in {"send", "drop_sender"} -> send_borrows(op.woke)
      [] op.op \in {"clone_sender", "clone_receiver", "drop_receiver",
                    "try_recv"} -> count_borrows
      [] op.op = "poll" -> recv_poll_borrows(op.tag)
      [] OTHER -> <<>>

OsBorrows(op) ==
    CASE op.op = "resolve" -> resolve_borrows(op.woke, op.dropWoke)
      [] op.op = "drop_oneshot" -> drop_oneshot_borrows(op.dropWoke)
      [] op.op \in {"try_recv", "drop_once"} -> once_borrows
      [] op.op = "poll" -> once_poll_borrows(op.tag)
      [] OTHER -> <<>>

TkBorrows(op) ==
    CASE op.op = "poll" -> poll_borrows(op.ran, op.tag)
      [] op.op = "consume" -> consume_borrows(op.woke)
      [] OTHER -> <<>>

\* A borrow_mut() of a cell whose earlier RefMut has not been released: the
\* RefCell panics there.
NestedBorrow(trace) ==
    \E i \in 1..Len(trace) :
        /\ trace[i].ev = "borrow_mut"
        /\ Cardinality({j \in 1..(i - 1) : trace[j] = Acq(trace[i].cell)})
             > Cardinality({j \in 1..(i - 1) : trace[j] = Rel(trace[i].cell)})

\* ============================================================== Adapters

\* The primitives used directly, with no adapter around them.
NoAdapter ==
    /\ adKind = "none"
    /\ hostRegistered = FALSE
    /\ adLive = FALSE
    /\ adStarted = FALSE
    /\ adReady = FALSE
    /\ adPanic = "none"
    /\ lateFire = FALSE

\* The adapters: `on` and `interval` hand out a stream over a channel,
\* `once`, `later` and `animation_frame` a future over a one-shot.
StreamKinds == {"on", "interval"}
OnceKinds == {"once", "later", "animation_frame"}

\* `later` and `animation_frame` call forget() on the handle of the timer /
\* animation-frame request: the closure is leaked and the handle's Drop
\* clears nothing.
ForgetKinds == {"later", "animation_frame"}

\* What the host hands the callback: an event or a timestamp, or nothing
\* (the unit value, written 0) for the two timers.
Payloads(kind) == IF kind \in {"interval", "later"} THEN {0} ELSE Values

\* The adapter as its constructor returns.  `on`, `once` and `interval`
\* register the callback before they return; `later` and `animation_frame`
\* are async fns, whose body (the one-shot, the registration) runs at the
\* first poll of the future.
Adapter(kind) ==
    /\ adKind = kind
    /\ hostRegistered = (kind \notin ForgetKinds)
    /\ adStarted = (kind \notin ForgetKinds)
    /\ adLive = TRUE
    /\ adReady = FALSE
    /\ adPanic = "none"
    /\ lateFire = FALSE

\* The callback of `on` / `interval` run by the host:
\* s.send(e).ok().unwrap()
StreamCallback(e) ==
    /\ UNCHANGED <<osVars, tkVars, wkVars>>
    /\ adKind \in StreamKinds
    /\ adPanic = "none"
    /\ hostRegistered
    /\ SendCall(e)
    /\ adPanic' = IF recvs > 0 THEN "none" ELSE "producer"
    /\ lateFire' = (lateFire \/ ~adLive)
    /\ UNCHANGED <<adKind, hostRegistered, adLive, adStarted, adReady>>

\* EventStream::try_next / IntervalStream::try_next: try_recv().ok()
StreamTryNext ==
    /\ UNCHANGED <<osVars, tkVars, adVars, wkVars>>
    /\ adKind \in StreamKinds
    /\ adPanic = "none"
    /\ adLive
    /\ TryRecvCall

\* One poll of EventStream::next / IntervalStream::next:
\* recv().await.unwrap(), the unwrap panicking on Ready(None).
StreamNext(w) ==
    /\ UNCHANGED <<osVars, tkVars, wkVars>>
    /\ adKind \in StreamKinds
    /\ adPanic = "none"
    /\ adLive
    /\ RecvPollCall(w)
    /\ adPanic' = IF try_recv(queue, senders).tag = "Closed"
                  THEN "consumer" ELSE "none"
    /\ UNCHANGED <<adKind, hostRegistered, adLive, adStarted, adReady,
                   lateFire>>

\* Drop of an EventStream / IntervalStream, its fields in declaration
\* order: the Receiver, then the handle, whose Drop deregisters the
\* callback and whose closure field owns the Sender.
DropStream ==
    /\ UNCHANGED <<osVars, tkVars, wkVars>>
    /\ adKind \in StreamKinds
    /\ adPanic = "none"
    /\ adLive
    /\ adLive' = FALSE
    /\ receiverHandles' = receiverHandles - 1
    /\ recvs' = recvs - 1
    /\ hostRegistered' = FALSE
    /\ senderHandles' = senderHandles - 1
    /\ senders' = senders - 1
    /\ IF senders' = 0
       THEN /\ waker' = None
            /\ chFired' = Wake(chFired, waker)
            /\ chOp' = [Op("drop_stream", None, None, "Ok", None, waker,
                            None)
                         EXCEPT !.held = HeldAtWake(waker, "drop_sender")]
       ELSE /\ chOp' = Op("drop_stream", None, None, "Ok", None, None, None)
            /\ UNCHANGED <<waker, chFired>>
    /\ UNCHANGED <<queue, accepted, delivered>>
    /\ UNCHANGED <<adKind, adStarted, adReady, adPanic, lateFire>>

\* The callback of `once` / `later` / `animation_frame` run by the host,
\* which runs it once: s.resolve(e).ok().unwrap()
OnceCallback(e) ==
    /\ UNCHANGED <<chVars, tkVars, wkVars>>
    /\ adKind \in OnceKinds
    /\ adPanic = "none"
    /\ hostRegistered
    /\ ResolveCall(e)
    /\ hostRegistered' = FALSE
    /\ adPanic' = IF recv_exists THEN "none" ELSE "producer"
    /\ lateFire' = (lateFire \/ ~adLive)
    /\ UNCHANGED <<adKind, adLive, adStarted, adReady>>

\* EventOnce::try_next: try_recv().ok()
OnceTryNext ==
    /\ UNCHANGED <<chVars, tkVars, adVars, wkVars>>
    /\ adKind = "once"
    /\ adPanic = "none"
    /\ adLive
    /\ OnceTryRecvCall

\* One poll of an EventOnce or of the future of `later` /
\* `animation_frame`: the first poll of the latter two runs the body up to
\* the await, registering the callback; the poll of the Once follows, with
\* the unwrap panicking on Ready(None).  A completed async fn is not polled
\* again.
FuturePoll(w) ==
    /\ UNCHANGED <<chVars, tkVars, wkVars>>
    /\ adKind \in OnceKinds
    /\ adPanic = "none"
    /\ adLive
    /\ adKind \in ForgetKinds => ~adReady
    /\ OncePollCall(w)
    /\ adStarted' = TRUE
    /\ hostRegistered' = IF adStarted THEN hostRegistered ELSE TRUE
    /\ LET r == once_try_recv(v, send_exists) IN
        /\ adReady' = (adReady \/ r.tag = "Ok")
        /\ adPanic' = IF r.tag = "Closed" THEN "consumer" ELSE "none"
    /\ UNCHANGED <<adKind, adLive, lateFire>>

\* Drop of an EventOnce or of the future of `later` / `animation_frame`:
\* the Once is dropped; the ListenerHandle of an EventOnce then removes the
\* listener and drops the closure with the Oneshot in it, while the
\* forgotten handle of the other two leaves callback and Oneshot alone.
DropFuture ==
    /\ UNCHANGED <<chVars, tkVars, wkVars>>
    /\ adKind \in OnceKinds
    /\ adPanic = "none"
    /\ adLive
    /\ adLive' = FALSE
    /\ onceLive' = IF adStarted THEN FALSE ELSE onceLive
    /\ recv_exists' = IF adStarted THEN FALSE ELSE recv_exists
    /\ IF adKind = "once"
       THEN /\ hostRegistered' = FALSE
            /\ oneshotLive' = FALSE
            /\ IF oneshotLive
               THEN LET d == DropForOneshot(os_waker) IN
                     /\ os_waker' = d.waker
                     /\ send_exists' = d.send_exists
                     /\ osFired' = Wake(osFired, d.woke)
                     /\ osOp' = [Op("drop_future", None, None, "Ok", None,
                                     None, d.woke)
                                  EXCEPT !.held =
                                      HeldAtWake(d.woke, "drop_oneshot")]
               ELSE /\ osOp' = Op("drop_future", None, None, "Ok", None,
                                  None, None)
                    /\ UNCHANGED <<os_waker, send_exists, osFired>>
       ELSE /\ osOp' = Op("drop_future", None, None, "Ok", None, None, None)
            /\ UNCHANGED <<hostRegistered, oneshotLive, os_waker,
                           send_exists, osFired>>
    /\ UNCHANGED <<v, osResolved, osDelivered>>
    /\ UNCHANGED <<adKind, adStarted, adReady, adPanic, lateFire>>

\* ============================================================== TaskWorker

Runs == 1..MaxRuns

\* What a `run` future resolves to: the reply to the request of future
\* `i`, or the error of a post that failed.
Reply(i) == [tag |-> "Ok", of |-> i]
PostError(i) == [tag |-> "Err", of |-> i]

\* TaskWorker::new once the worker is up: no callback pending, no message
\* in flight; the `run` futures have been created and none of them polled.
TaskWorkerNew ==
    /\ futures = <<>>
    /\ inbox = <<>>
    /\ outbox = <<>>
    /\ runPc = [i \in Runs |-> "created"]
    /\ runResult = [i \in Runs |-> None]
    /\ runWaker = [i \in Runs |-> None]
    /\ runOut = [i \in Runs |-> None]
    /\ posted = <<>>
    /\ awarded = <<>>
    /\ wkFired = NoFires
    /\ wkPanic = FALSE

\* Mutant of pop_front: the callback queued last is taken.
pop_back(q) ==
    IF q = <<>>
    THEN [head |-> None, rest |-> q]
    ELSE [head |-> Some(q[Len(q)]), rest |-> SubSeq(q, 1, Len(q) - 1)]

\* VecDeque::pop_front
pop_front(q) ==
    IF q = <<>>
    THEN [head |-> None, rest |-> q]
    ELSE [head |-> Some(Head(q)), rest |-> Tail(q)]

\* The first poll of the future of run(f, args), which runs the closure of
\* its Task.  If the post succeeds the message goes to the worker and the
\* callback that owns the Consumer is queued, in the same step; the poll
\* stores its waker and returns Pending.  If the post fails the closure
\* consumes the error at once and the re-poll returns it.
RunFirstPoll(i, posts) ==
    /\ UNCHANGED <<chVars, osVars, tkVars, adVars>>
    /\ ~wkPanic
    /\ runPc[i] = "created"
    /\ IF posts
       THEN /\ inbox' = Append(inbox, i)
            /\ futures' = push_back(futures, i)
            /\ posted' = Append(posted, i)
            /\ runWaker' = [runWaker EXCEPT ![i] = Some("W1")]
            /\ runPc' = [runPc EXCEPT ![i] = "awaiting"]
            /\ UNCHANGED <<runResult, runOut, wkFired>>
       ELSE LET c == consume(PostError(i), None)
                r == Repoll(c.result)
            IN
            /\ runResult' = [runResult EXCEPT ![i] = r.result]
            /\ runOut' = [runOut EXCEPT ![i] = r.val]
            /\ wkFired' = Wake(wkFired, c.woke)
            /\ runPc' = [runPc EXCEPT ![i] = "done"]
            /\ UNCHANGED <<inbox, futures, posted, runWaker>>
    /\ UNCHANGED <<outbox, awarded, wkPanic>>

\* A later poll of the future of run: the closure is gone, the result slot
\* is taken; Ready if it held a value, Pending otherwise.
RunPoll(i) ==
    /\ UNCHANGED <<chVars, osVars, tkVars, adVars>>
    /\ ~wkPanic
    /\ runPc[i] = "awaiting"
    /\ LET r == Repoll(runResult[i]) IN
        /\ runResult' = [runResult EXCEPT ![i] = r.result]
        /\ runOut' = [runOut EXCEPT ![i] = r.val]
        /\ runPc' = [runPc EXCEPT ![i] =
                        IF r.tag = "Ready" THEN "done" ELSE "awaiting"]
    /\ UNCHANGED <<futures, inbox, outbox, runWaker, posted, awarded,
                   wkFired, wkPanic>>

\* The future of run is dropped before it completed.  A callback already
\* queued stays queued and keeps the Consumer, with the result slot and
\* the waker cell behind it.
DropRun(i) ==
    /\ UNCHANGED <<chVars, osVars, tkVars, adVars>>
    /\ ~wkPanic
    /\ runPc[i] \in {"created", "awaiting"}
    /\ runPc' = [runPc EXCEPT ![i] = "dropped"]
    /\ UNCHANGED <<futures, inbox, outbox, runResult, runWaker, runOut,
                   posted, awarded, wkFired, wkPanic>>

\* The worker handles the oldest message posted to it and posts the reply
\* (task_invoker); messages are handled in the order they were posted.
WorkerAnswer ==
    /\ UNCHANGED <<chVars, osVars, tkVars, adVars>>
    /\ ~wkPanic
    /\ inbox # <<>>
    /\ inbox' = Tail(inbox)
    /\ outbox' = Append(outbox, Head(inbox))
    /\ UNCHANGED <<futures, runPc, runResult, runWaker, runOut, posted,
                   awarded, wkFired, wkPanic>>

\* The message listener of TaskWorker::new, run with the oldest reply:
\* fut.borrow_mut().pop_front().unwrap()(e), the unwrap panicking on an
\* empty queue; the callback consumes the reply into the Task of its run.
Listener ==
    /\ UNCHANGED <<chVars, osVars, tkVars, adVars>>
    /\ ~wkPanic
    /\ outbox # <<>>
    /\ outbox' = Tail(outbox)
    /\ LET e == Head(outbox)
           p == pop_front(futures)
       IN
        IF p.head = None
        THEN /\ wkPanic' = TRUE
             /\ UNCHANGED <<futures, runResult, runWaker, awarded, wkFired>>
        ELSE LET cb == p.head[1]
                 c == consume(Reply(e), runWaker[cb])
             IN
             /\ futures' = p.rest
             /\ runResult' = [runResult EXCEPT ![cb] = c.result]
             /\ runWaker' = [runWaker EXCEPT ![cb] = c.waker]
             /\ wkFired' = Wake(wkFired, c.woke)
             /\ awarded' = Append(awarded, [resolver |-> cb, reply |-> e])
             /\ UNCHANGED wkPanic
    /\ UNCHANGED <<inbox, runPc, runOut, posted>>

\* ============================================================== Specs

\* Each primitive is explored from its constructor; the Task may have been
\* built around any of the closures.
Init ==
    /\ channel /\ oneshot /\ NoAdapter /\ TaskWorkerNew
    /\ \E f \in Closures : TaskNew(f)

\* The channel and the one-shot do not read the Task: their specifications
\* start it around one fixed closure.
InitNoTask ==
    /\ channel /\ oneshot /\ NoAdapter /\ TaskWorkerNew
    /\ TaskNew([kind |-> "defer", x |-> None])

NextChannel ==
    \/ \E x \in Values : Send(x)
    \/ DropSender
    \/ CloneSender
    \/ TryRecv
    \/ \E w \in Wakers : RecvPoll(w)
    \/ DropReceiver
    \/ CloneReceiver

SpecChannel == InitNoTask /\ [][NextChannel]_vars

NextOneshot ==
    \/ \E x \in Values : Resolve(x)
    \/ DropOneshot
    \/ OnceTryRecv
    \/ \E w \in Wakers : OncePoll(w)
    \/ DropOnce

SpecOneshot == InitNoTask /\ [][NextOneshot]_vars

NextTask ==
    \/ \E w \in Wakers : TaskPoll(w)
    \/ \E x \in Values : Consume(x)
    \/ DropConsumer
    \/ DropTask

SpecTask == Init /\ [][NextTask]_vars

\* The closure InitNoTask builds the Task around.
DeferClosure == [kind |-> "defer", x |-> None]

\* All three primitives, for the properties that speak of more than one of
\* them.  They share nothing, so each behaviour exercises one primitive
\* while the other two stay as constructed.
NextPrimitives ==
    \/ /\ osOp.op = "oneshot"
       /\ tkOp.op = "new" /\ task = Some(DeferClosure)
       /\ NextChannel
    \/ /\ chOp.op = "channel"
       /\ tkOp.op = "new" /\ task = Some(DeferClosure)
       /\ NextOneshot
    \/ /\ chOp.op = "channel"
       /\ osOp.op = "oneshot"
       /\ NextTask

SpecPrimitives == Init /\ [][NextPrimitives]_vars

\* One adapter, the host and the adapter's caller.
InitAdapter ==
    /\ channel /\ oneshot /\ TaskNew(DeferClosure) /\ TaskWorkerNew
    /\ \E kind \in StreamKinds \cup OnceKinds : Adapter(kind)

NextAdapter ==
    \/ \E e \in Payloads(adKind) : StreamCallback(e)
    \/ StreamTryNext
    \/ \E w \in Wakers : StreamNext(w)
    \/ DropStream
    \/ \E e \in Payloads(adKind) : OnceCallback(e)
    \/ OnceTryNext
    \/ \E w \in Wakers : FuturePoll(w)
    \/ DropFuture

SpecAdapter == InitAdapter /\ [][NextAdapter]_vars

\* One TaskWorker, its worker and the callers of `run`.
NextWorker ==
    \/ \E i \in Runs, posts \in BOOLEAN : RunFirstPoll(i, posts)
    \/ \E i \in Runs : RunPoll(i)
    \/ \E i \in Runs : DropRun(i)
    \/ WorkerAnswer
    \/ Listener

SpecWorker == InitNoTask /\ [][NextWorker]_vars

\* ============================================================== Claims

\* ---- C1: FIFO law.  The values handed out by try_recv / recv, followed by
\* what is still queued, are exactly the accepted sends in the order they
\* were accepted: the delivered values are a prefix of the accepted ones,
\* nothing skipped, duplicated or reordered.
C1_Fifo == delivered \o queue = accepted

\* All MaxSends accepted values came out, not all equal, while more than one
\* Sender handle was around.
C1_Witness ==
    /\ Len(delivered) = MaxSends
    /\ delivered[1] # delivered[2]
    /\ senders > 1

\* ---- C2: no lost wakeup.  With a waker stored by a Pending poll, a
\* successful send, or the drop of the last Sender, fires exactly that waker
\* once and clears the slot; and the poll that follows such a wake returns
\* Ready: Some(the value sent) after a send, None after closure.
C2_NoLostWakeup ==
    /\ [][ (/\ waker # None
            /\ \/ chOp'.op = "send" /\ chOp'.tag = "Ok"
               \/ chOp'.op = "drop_sender" /\ senders' = 0)
           => (/\ waker' = None
               /\ chOp'.woke = waker
               /\ chFired' = [chFired EXCEPT ![waker[1]] = @ + 1]) ]_vars
    /\ [][ (chOp.woke # None /\ chOp'.op = "poll")
           => (/\ chOp'.tag = "Ready"
               /\ chOp'.val = IF chOp.op = "send" THEN chOp.arg ELSE None)
         ]_vars

\* W1 was stored, the only accepted send fired it once, and the next poll
\* returned the value sent.
C2_Witness ==
    /\ chOp.op = "poll"
    /\ chOp.tag = "Ready"
    /\ chOp.val = Some(5)
    /\ accepted = <<5>>
    /\ chFired["W1"] = 1

\* ---- C3: closed-channel law.  A poll of recv made with senders = 0 and an
\* empty queue returns Ready(None) and leaves the waker slot as it was; and
\* no waker is ever stored while senders = 0.
C3_ClosedNeverSuspends ==
    /\ [](senders = 0 => waker = None)
    /\ [][ (chOp'.op = "poll" /\ senders = 0 /\ queue = <<>>)
           => (/\ chOp'.tag = "Ready"
               /\ chOp'.val = None
               /\ waker' = waker) ]_vars

\* A poll on the closed, drained channel completed with no value.
C3_Witness ==
    /\ chOp.op = "poll"
    /\ chOp.tag = "Ready"
    /\ chOp.val = None
    /\ senders = 0
    /\ queue = <<>>
    /\ accepted # <<>>

\* ---- C4: rejected send.  send(x) with recvs = 0 returns Err(x) and leaves
\* queue, waker slot, both counts and the wake counts unchanged; with
\* recvs > 0 it returns Ok and appends x, whatever the queue holds.
C4_RejectedSend ==
    [][ chOp'.op = "send"
        => IF recvs = 0
           THEN /\ chOp'.tag = "Err"
                /\ chOp'.val = chOp'.arg
                /\ UNCHANGED <<queue, waker, senders, recvs, chFired>>
           ELSE /\ chOp'.tag = "Ok"
                /\ queue' = Append(queue, chOp'.arg[1])
                /\ UNCHANGED <<senders, recvs>> ]_vars

\* A send was rejected, after the last Receiver was dropped, while the waker
\* of an earlier Pending poll was still stored.
C4_Witness ==
    /\ chOp.op = "send"
    /\ chOp.tag = "Err"
    /\ chOp.val = Some(42)
    /\ recvs = 0
    /\ waker = Some("W2")

\* ---- C5: try_recv classification.  With a non-empty queue it returns the
\* front value and removes it, also when senders is already 0; with an empty
\* queue it returns Closed exactly when senders = 0 and Empty otherwise.
C5_TryRecvClassification ==
    [][ chOp'.op = "try_recv"
        => IF queue # <<>>
           THEN /\ chOp'.tag = "Ok"
                /\ chOp'.val = Some(Head(queue))
                /\ queue' = Tail(queue)
           ELSE /\ queue' = queue
                /\ chOp'.tag = IF senders = 0 THEN "Closed" ELSE "Empty"
      ]_vars

\* A value sent before the last Sender was dropped came out of try_recv
\* after the drop.
C5_Witness ==
    /\ chOp.op = "try_recv"
    /\ chOp.tag = "Ok"
    /\ chOp.val = Some(5)
    /\ senders = 0

\* ---- C6: one-shot success.  After resolve(x) succeeded, a try_recv / poll
\* either returns x, as the first delivery, or reports closure (Closed /
\* Ready(None)) after x was delivered; it never reports Empty / Pending.
\* Over any run at most one value is delivered, and it is the resolved one.
C6_OneshotSuccess ==
    /\ Len(osDelivered) <= 1
    /\ osDelivered # <<>> => osDelivered = osResolved
    /\ (osResolved # None /\ osOp.op \in {"try_recv", "poll"})
       => \/ osOp.tag \in {"Ok", "Ready"} /\ osOp.val = osResolved
          \/ /\ osOp.tag = "Closed" \/ (osOp.tag = "Ready" /\ osOp.val = None)
             /\ osDelivered = osResolved

\* 42 was resolved and delivered, and a later try_recv reported Closed.
C6_Witness ==
    /\ osOp.op = "try_recv"
    /\ osOp.tag = "Closed"
    /\ osDelivered = <<42>>

\* ---- C7: one-shot abandoned producer.  Dropping the Oneshot without
\* resolving while a waker is stored fires that waker once and clears the
\* slot; the poll that follows completes with Ready(None); and no waker ever
\* stays stored once the producer is gone.
C7_AbandonedProducer ==
    /\ [](~send_exists => os_waker = None)
    /\ [][ (os_waker # None /\ osOp'.op = "drop_oneshot")
           => (/\ os_waker' = None
               /\ osOp'.dropWoke = os_waker
               /\ osFired' = [osFired EXCEPT ![os_waker[1]] = @ + 1]) ]_vars
    /\ [][ (osOp.op = "drop_oneshot" /\ osOp'.op = "poll")
           => (osOp'.tag = "Ready" /\ osOp'.val = None) ]_vars

\* W1 was pending, the producer was dropped unresolved, W1 was fired and the
\* next poll completed with no value.
C7_Witness ==
    /\ osOp.op = "poll"
    /\ osOp.tag = "Ready"
    /\ osOp.val = None
    /\ osResolved = None
    /\ osFired["W1"] = 1

\* ---- C8 as stated: resolve(x) after the Once was dropped returns Err(x),
\* does not write the slot and fires no waker at all.
C8_AbandonedConsumer_Original ==
    [][ (osOp'.op = "resolve" /\ ~recv_exists)
        => (/\ osOp'.tag = "Err"
            /\ osOp'.val = osOp'.arg
            /\ v' = v
            /\ osFired' = osFired) ]_vars

\* ---- C8 as amended: resolve(x) after the Once was dropped returns Err(x)
\* and does not write the slot; the body of resolve fires no waker, and the
\* drop of the consumed Oneshot that ends the call fires whatever waker an
\* earlier Pending poll left stored, once, and clears the slot.
C8_AbandonedConsumer ==
    [][ (osOp'.op = "resolve" /\ ~recv_exists)
        => (/\ osOp'.tag = "Err"
            /\ osOp'.val = osOp'.arg
            /\ v' = v
            /\ osOp'.woke = None
            /\ osOp'.dropWoke = os_waker
            /\ os_waker' = None
            /\ osFired' = Wake(osFired, os_waker)) ]_vars

\* A resolve was rejected after the Once, polled to Pending with W1, had
\* been dropped; W1 was fired as the call returned.
C8_Witness ==
    /\ osOp.op = "resolve"
    /\ osOp.tag = "Err"
    /\ osOp.val = Some(5)
    /\ osOp.dropWoke = Some("W1")
    /\ v = None

\* ---- C9: Task synchronous resolution.  If the closure consumes x before
\* returning, the first poll returns Ready(x) itself and fires no waker.
C9_TaskSync ==
    [][ (/\ tkOp'.op = "poll"
         /\ result = None
         /\ task # None
         /\ task[1].kind = "sync")
        => (/\ tkOp'.tag = "Ready"
            /\ tkOp'.val = task[1].x
            /\ tkOp'.woke = None
            /\ tkFired' = tkFired) ]_vars

\* The first poll ran a closure that consumed 42 and returned Ready(42)
\* with no waker fired.
C9_Witness ==
    /\ tkOp.op = "poll"
    /\ tkOp.ran = "sync"
    /\ tkOp.tag = "Ready"
    /\ tkOp.val = Some(42)
    /\ tkFired = NoFires

\* ---- C10: Task asynchronous resolution.  If the closure keeps the
\* Consumer, the first poll returns Pending and stores its waker; the later
\* consume(x) fires that stored waker, making one fire in all; and the poll
\* that follows returns Ready(x).
C10_TaskAsync ==
    /\ [][ (/\ tkOp'.op = "poll"
            /\ result = None
            /\ task # None
            /\ task[1].kind = "defer")
           => (/\ tkOp'.tag = "Pending"
               /\ consumerWaker' = tkOp'.wk) ]_vars
    /\ [][ tkOp'.op = "consume"
           => (/\ consumerWaker # None
               /\ tkOp'.woke = consumerWaker
               /\ tkFired' = [NoFires EXCEPT ![consumerWaker[1]] = 1]) ]_vars
    /\ [][ (tkOp.op = "consume" /\ tkOp'.op = "poll")
           => (tkOp'.tag = "Ready" /\ tkOp'.val = tkOp.arg) ]_vars
    /\ [](\A w \in Wakers : tkFired[w] <= 1)

\* A deferred consume(5) fired W2 once and the next poll returned Ready(5).
C10_Witness ==
    /\ tkOp.op = "poll"
    /\ tkOp.tag = "Ready"
    /\ tkOp.val = Some(5)
    /\ tkFired["W2"] = 1
    /\ closureRuns = 1

\* ---- C11 as stated: shared-cell discipline.  No Channel, One-shot or Task
\* operation fires a waker while a RefCell of the shared state is still
\* exclusively borrowed: whenever an operation fired a waker, nothing was
\* held at that moment.
C11_NoBorrowAtWake ==
    /\ (chOp.woke # None \/ chOp.dropWoke # None) => chOp.held = {}
    /\ (osOp.woke # None \/ osOp.dropWoke # None) => osOp.held = {}
    /\ tkOp.woke # None => tkOp.held = {}

\* The states in which try_recv reports Closed.
ChClosed == senders = 0 /\ queue = <<>>
OsClosed == ~send_exists /\ v = None

\* A try_recv that returned Closed, or a poll that returned Ready(None).
ReportsClosed(op) ==
    /\ op.op \in {"try_recv", "poll"}
    /\ op.tag = "Closed" \/ (op.tag = "Ready" /\ op.val = None)

\* ---- C12: Closed is terminal.  On a Channel and on a One-shot alike, a
\* report of Closed is made only in the closed state; no operation (clone,
\* drop, send or resolve attempt, receive) leaves the closed state; and every
\* try_recv / poll made in the closed state reports Closed.  So after one
\* report of Closed, every later try_recv / poll reports Closed.
C12_ClosedIsTerminal ==
    /\ [](ReportsClosed(chOp) => ChClosed)
    /\ [](ReportsClosed(osOp) => OsClosed)
    /\ [][ChClosed => ChClosed']_vars
    /\ [][OsClosed => OsClosed']_vars
    /\ [][ (ChClosed /\ chOp'.op \in {"try_recv", "poll"})
           => ReportsClosed(chOp') ]_vars
    /\ [][ (OsClosed /\ osOp'.op \in {"try_recv", "poll"})
           => ReportsClosed(osOp') ]_vars

\* Closed was reported on a channel that had delivered a value and whose
\* Receiver had been cloned.
C12_Witness ==
    /\ chOp.op = "try_recv"
    /\ chOp.tag = "Closed"
    /\ recvs = 2
    /\ delivered # <<>>

\* ---- C14: the registration closure is run exactly once.  Task::new runs
\* nothing; a poll runs the closure exactly when no poll has run it before,
\* so after any poll it has run once, and never more than once.
C14_ClosureRunsOnce ==
    /\ [](closureRuns <= 1)
    /\ [](tkOp.op = "new" => closureRuns = 0)
    /\ [][ tkOp'.op = "poll"
           => (/\ closureRuns' = 1
               /\ (tkOp'.ran # "no") <=> (closureRuns = 0)) ]_vars

\* A poll made after the result had been handed out did not run the closure
\* again.
C14_Witness ==
    /\ tkOp.op = "poll"
    /\ tkOp.ran = "no"
    /\ tkDelivered # <<>>
    /\ closureRuns = 1

\* ---- C15 as stated: the most recently registered waker is the one fired.
\* When a poll of recv, of the Once or of the Task has just returned Pending
\* with waker W, the send / resolve / producer drop / consume that comes next
\* fires W.
C15_LatestWakerFired ==
    /\ [][ (/\ chOp.op = "poll" /\ chOp.tag = "Pending"
            /\ \/ chOp'.op = "send" /\ chOp'.tag = "Ok"
               \/ chOp'.op = "drop_sender" /\ senders' = 0)
           => chOp'.woke = chOp.wk ]_vars
    /\ [][ (/\ osOp.op = "poll" /\ osOp.tag = "Pending"
            /\ osOp'.op \in {"resolve", "drop_oneshot"})
           => (\/ osOp'.woke = osOp.wk /\ osOp'.dropWoke = None
               \/ osOp'.woke = None /\ osOp'.dropWoke = osOp.wk) ]_vars
    /\ [][ (/\ tkOp.op = "poll" /\ tkOp.tag = "Pending"
            /\ tkOp'.op = "consume")
           => tkOp'.woke = tkOp.wk ]_vars

\* ---- C16: a stored waker is never double-fired.  On a Channel and on a
\* One-shot, whenever an operation fires, the waker it fires is the one in
\* the slot, it is fired once by the whole call (resolve with its closing
\* drop included), and the slot is empty afterwards.
C16_NoDoubleFire ==
    /\ [][ chFired' # chFired
           => (/\ waker # None
               /\ waker' = None
               /\ chFired' = [chFired EXCEPT ![waker[1]] = @ + 1]) ]_vars
    /\ [][ osFired' # osFired
           => (/\ os_waker # None
               /\ os_waker' = None
               /\ osFired' = [osFired EXCEPT ![os_waker[1]] = @ + 1]) ]_vars

\* A successful resolve fired the pending W1; the drop that ended the call
\* fired nothing; W1 was fired once in all.
C16_Witness ==
    /\ osOp.op = "resolve"
    /\ osOp.tag = "Ok"
    /\ osOp.woke = Some("W1")
    /\ osOp.dropWoke = None
    /\ osFired = [NoFires EXCEPT !["W1"] = 1]

\* ---- C17: single waker slot, last poller wins.  The slot holds at most
\* one waker; a Pending poll puts its own waker there in place of whatever
\* was stored; a successful send fires the stored waker and no other.
C17_LastPollerWins ==
    /\ [](Len(waker) <= 1)
    /\ [][ (chOp'.op = "poll" /\ chOp'.tag = "Pending")
           => (waker' = chOp'.wk /\ chOp'.replaced = waker) ]_vars
    /\ [][ (chOp'.op = "send" /\ chOp'.tag = "Ok")
           => \A w \in Wakers :
                chFired'[w] = chFired[w] + (IF waker = Some(w) THEN 1 ELSE 0)
         ]_vars

\* With two Receiver handles, a Pending poll with W2 replaced the W1 an
\* earlier Pending poll had stored; W1 has not been fired.
C17_Witness ==
    /\ chOp.op = "poll"
    /\ chOp.replaced = Some("W1")
    /\ waker = Some("W2")
    /\ receiverHandles = 2
    /\ chFired = NoFires

\* ---- C18: the Task is a single-award future.  At most one value is ever
\* returned; once a poll has returned Ready(x) the result slot is empty, and
\* every later poll returns Pending without running the closure.
C18_SingleAward ==
    /\ [](Len(tkDelivered) <= 1)
    /\ [](tkDelivered # <<>> => result = None)
    /\ [][ (tkDelivered # <<>> /\ tkOp'.op = "poll")
           => (/\ tkOp'.tag = "Pending"
               /\ tkOp'.ran = "no"
               /\ closureRuns' = closureRuns) ]_vars

\* After Ready(42) a further poll returned Pending.
C18_Witness ==
    /\ tkOp.op = "poll"
    /\ tkOp.tag = "Pending"
    /\ tkDelivered = <<42>>

\* C13  Cancellation releases host resources: once the stream or future an
\* adapter returned has been dropped, the host holds no callback of it any
\* more, and no callback of it has run after the drop.
C13_CancellationReleases ==
    /\ ~adLive /\ adKind # "none" => ~hostRegistered
    /\ ~lateFire

\* C19  Adapter producer-side assertion: whenever the host runs a callback
\* registered by `on`, `once`, `interval`, `later` or `animation_frame`, its
\* send / resolve succeeds, so the .ok().unwrap() of the callback does not
\* panic.
C19_ProducerNeverPanics ==
    adPanic # "producer"

\* C20  Adapter consumer-side assertion: a poll of EventStream::next,
\* IntervalStream::next, EventOnce, `later` or `animation_frame` that has not
\* yet returned Ready never finds the channel or one-shot Closed, so its
\* unwrap does not panic.
C20_ConsumerNeverPanics ==
    ~(adPanic = "consumer" /\ ~adReady)

\* C21  Handle-count invariant: senders is the number of live Sender
\* handles and recvs the number of live Receiver handles; neither goes
\* below 0, and a counter that has reached 0 stays 0.
C21_HandleCounts ==
    /\ [](/\ senders = senderHandles
          /\ recvs = receiverHandles
          /\ senders >= 0
          /\ recvs >= 0)
    /\ [][/\ senders = 0 => senders' = 0
          /\ recvs = 0 => recvs' = 0]_vars

\* Senders cloned and all dropped again while a cloned Receiver lives on.
C21_Witness ==
    /\ chOp.op = "drop_sender"
    /\ senders = 0
    /\ senderHandles = 0
    /\ recvs = 2
    /\ receiverHandles = 2

\* C22  No nested exclusive borrow under a non-reentrant scheduler: with
\* wakers that only enqueue their task, no Channel, One-shot or Task
\* operation calls borrow_mut() on a cell it still holds a RefMut of; resolve
\* has released the state before the drop of the consumed handle borrows it
\* again, and Task::poll has released the result slot before it calls the
\* closure.
C22_NoNestedBorrow ==
    /\ ~NestedBorrow(ChBorrows(chOp))
    /\ ~NestedBorrow(OsBorrows(osOp))
    /\ ~NestedBorrow(TkBorrows(tkOp))

\* resolve woke the stored waker under its borrow, released it, and the
\* drop of the handle borrowed the state again.
C22_Witness ==
    /\ osOp.op = "resolve"
    /\ osOp.tag = "Ok"
    /\ osOp.woke = Some("W1")
    /\ OsBorrows(osOp) =
         <<Acq("OneshotState"), [ev |-> "wake", cell |-> "W1"],
           Rel("OneshotState"), Acq("OneshotState"), Rel("OneshotState")>>

\* C23  TaskWorker pairs replies with requests in FIFO order: the k-th
\* reply is the reply to the k-th successfully posted request and is handed
\* to the resolver of that request, whichever order the `run` futures were
\* first polled in, whether they were dropped, and whichever posts failed;
\* a `run` future returns only its own reply or its own post error; and the
\* listener never finds the callback queue empty.
C23_FifoPairing ==
    /\ ~wkPanic
    /\ Len(awarded) <= Len(posted)
    /\ \A k \in 1..Len(awarded) :
          awarded[k] = [resolver |-> posted[k], reply |-> posted[k]]
    /\ \A i \in Runs : runOut[i] # None => runOut[i][1].of = i

\* Run 2 posted before run 1 and was dropped while waiting, the post of
\* run 3 failed; both replies arrived and run 1 returned its own.
C23_Witness ==
    /\ posted = <<2, 1>>
    /\ Len(awarded) = 2
    /\ runPc[2] = "dropped"
    /\ runOut[1] = Some(Reply(1))
    /\ runOut[3] = Some(PostError(3))

====
